---------------------------- MODULE Spec2Model ----------------------------
(***************************************************************************)
(* A model of the currency-conversion service in src/transactions:         *)
(* the convert handler (TransactionCreateView.create followed by the       *)
(* serializer and Transaction.save), the transaction list and detail       *)
(* views, the available-currency view and the preference update view,      *)
(* over the shared cache and the stored preferences and transactions.      *)
(***************************************************************************)
EXTENDS Integers, Sequences, FiniteSets, TLC

VARIABLES prefs, cache, txs, last, flight

vars == <<prefs, cache, txs, last, flight>>

None == "None"

(***************************************************************************)
(* decimal.Decimal.  A value is (sign, coefficient, exponent) as in        *)
(* Python; the coefficient is kept as m * 10^z so that long coefficients   *)
(* made of a short head and trailing zeros stay within machine integers.   *)
(* The arithmetic context is Python's default: 28 digits, half-even.       *)
(***************************************************************************)
ContextPrec == 28

RECURSIVE Dec(_, _, _, _)
Dec(s, m, z, e) ==
    IF m = 0 THEN [s |-> s, m |-> 0, z |-> 0, e |-> e]
    ELSE IF m % 10 = 0 THEN Dec(s, m \div 10, z + 1, e)
    ELSE [s |-> s, m |-> m, z |-> z, e |-> e]

RECURSIVE Pow10(_)
Pow10(n) == IF n <= 0 THEN 1 ELSE 10 * Pow10(n - 1)

RECURSIVE NDigits(_)
NDigits(n) == IF n < 10 THEN 1 ELSE 1 + NDigits(n \div 10)

\* len(d.as_tuple().digits)
CoefDigits(d) == IF d.m = 0 THEN 1 ELSE NDigits(d.m) + d.z

IsZero(d) == d.m = 0

\* d <= 0
NonPositive(d) == d.m = 0 \/ d.s = 1

\* a * b: signs xor, coefficients multiply, exponents add.  Every product
\* the model forms has fewer than ContextPrec digits, so it is exact.
DecMul(a, b) == Dec((a.s + b.s) % 2, a.m * b.m, a.z + b.z, a.e + b.e)

\* Whether d.quantize(10^-places) raises InvalidOperation under a context of
\* prec digits: the result would need more than prec digits.
QuantizeRaises(d, places, prec) ==
    ~IsZero(d) /\ d.e + CoefDigits(d) + places > prec

\* The head m with its last j digits dropped, rounded half-even.
RoundHalfEven(m, j) ==
    IF j > NDigits(m) THEN 0
    ELSE LET q == m \div Pow10(j)
             r == m % Pow10(j)
             half == 5 * Pow10(j - 1)
         IN  IF r > half \/ (r = half /\ q % 2 = 1) THEN q + 1 ELSE q

\* d.quantize(Decimal(10) ** -places), rounding half-even
Quantize(d, places) ==
    LET shift == d.e + places
    IN  IF IsZero(d) THEN Dec(d.s, 0, 0, -places)
        ELSE IF shift >= 0 THEN Dec(d.s, d.m, d.z + shift, -places)
        ELSE IF -shift <= d.z THEN Dec(d.s, d.m, d.z + shift, -places)
        ELSE Dec(d.s, RoundHalfEven(d.m, -shift - d.z), 0, -places)

\* len(str(d).replace('.', '')) for an exponent <= 0: the sign, then the
\* digits, a value below 1 being written with a leading "0".
StrLenNoPoint(d) ==
    d.s + (IF d.e + CoefDigits(d) <= 0 THEN 1 - d.e ELSE CoefDigits(d))

\* Equality of the numbers two decimals denote (Decimal.__eq__), which
\* ignores trailing zeros and the sign of zero: 0.120 == 0.12.
NumEq(a, b) ==
    LET lo == IF a.e < b.e THEN a.e ELSE b.e
    IN  IF IsZero(a) \/ IsZero(b) THEN IsZero(a) /\ IsZero(b)
        ELSE Quantize(a, -lo) = Quantize(b, -lo)

(***************************************************************************)
(* The users, the request fields and the provider's answers.               *)
(***************************************************************************)
Users == {"u1", "u2"}

\* str.upper() on the currency codes that occur
Upper(c) ==
    CASE c = "usd" -> "USD"
      [] c = "eur" -> "EUR"
      [] OTHER -> c

\* The conversion_rates table of the provider's /latest/USD answer.
ProviderCodes == {"USD", "EUR", "GBP", "JPY"}

\* The top-level keys of the provider's /latest/USD answer.
LatestKeys == {"result", "base_code", "conversion_rates"}

\* request.data['input_amount']: absent, a JSON number or a JSON string.
Absent == [json |-> "absent", text |-> ""]
Num(t) == [json |-> "number", text |-> t]
Str(t) == [json |-> "string", text |-> t]

\* bool(value) for a request field
Truthy(a) == a.json = "string" \/ (a.json = "number" /\ a.text # "0")

\* decimal.Decimal(text) for the amounts that occur; a text outside the
\* table raises InvalidOperation.
DecimalOf ==
    [t \in {"0", "1", "-5", "3.61", "100.00", "1.0005", "100000000000",
            "100000000000000", "1E+27"} |->
        CASE t = "0" -> Dec(0, 0, 0, 0)
          [] t = "1" -> Dec(0, 1, 0, 0)
          [] t = "-5" -> Dec(1, 5, 0, 0)
          [] t = "3.61" -> Dec(0, 361, 0, -2)
          [] t = "100.00" -> Dec(0, 1, 4, -2)
          [] t = "1.0005" -> Dec(0, 10005, 0, -4)
          [] t = "100000000000" -> Dec(0, 1, 11, 0)
          [] t = "100000000000000" -> Dec(0, 1, 14, 0)
          [] t = "1E+27" -> Dec(0, 1, 0, 27)]

Parses(a) == a.text \in DOMAIN DecimalOf

\* The provider's JSON numbers.  Decimal(rate) of a float is its binary
\* expansion; the rates here are dyadic, so that expansion is the literal.
JNone == [s |-> 0, m |-> 0, z |-> 0, e |-> 0, none |-> TRUE]
Rate0 == Dec(0, 0, 0, 0)
Rate0125 == Dec(0, 125, 0, -3)
Rate05 == Dec(0, 5, 0, -1)
Rate1000 == Dec(0, 1, 3, 0)

\* fetch_data_from_api: raises (timeout, transport or HTTP error, undecodable
\* body) or returns the decoded JSON object.
Unreachable == [raised |-> TRUE, conversion_rate |-> JNone, conversion_rates |-> {},
                has_table |-> FALSE]
PairJson(r) == [raised |-> FALSE, conversion_rate |-> r, conversion_rates |-> {},
                has_table |-> FALSE]
LatestJson(codes, has) == [raised |-> FALSE, conversion_rate |-> JNone,
                           conversion_rates |-> codes, has_table |-> has]
NotCalled == [raised |-> FALSE, conversion_rate |-> JNone, conversion_rates |-> {},
              has_table |-> FALSE, called |-> FALSE]

\* bool(exchange_rate): a JSON number is falsy when it is zero.
RateTruthy(r) == r # JNone /\ ~IsZero(r)

(***************************************************************************)
(* django.core.cache: cache.set(key, value, timeout) and cache.get(key).   *)
(* An entry carries its age in seconds; it is served while age < timeout.  *)
(***************************************************************************)
RATE_TIMEOUT == 3600
SNAPSHOT_TIMEOUT == 3600

\* A key that does not keep the direction of the pair: the two codes in a
\* fixed order.
RateKeyUndirected(a, b) ==
    IF Upper(a) = "EUR" /\ Upper(b) = "USD"
    THEN <<"exchange_rate", "USD", "EUR">>
    ELSE <<"exchange_rate", Upper(a), Upper(b)>>

\* A key built from the codes as they were sent.
RateKeyAsSent(a, b) == <<"exchange_rate", a, b>>

RateKey(a, b) == <<"exchange_rate", Upper(a), Upper(b)>>
SnapshotKey == <<"available_currencies">>

\* A cache.set that drops its timeout argument: the entry gets the
\* backend's default lifetime of 300 seconds.
CacheSetDefaultTimeout(c, key, value, timeout) ==
    [k \in DOMAIN c \cup {key} |->
        IF k = key THEN [value |-> value, age |-> 0, timeout |-> 300] ELSE c[k]]

CacheSet(c, key, value, timeout) ==
    [k \in DOMAIN c \cup {key} |->
        IF k = key THEN [value |-> value, age |-> 0, timeout |-> timeout] ELSE c[k]]

Live(c, key) == key \in DOMAIN c /\ c[key].age < c[key].timeout

\* cache.get(key) where Live(c, key); a miss returns None.
CacheGet(c, key) == c[key].value

(***************************************************************************)
(* The stored records.                                                     *)
(***************************************************************************)
\* UserPreference; exists = FALSE stands for a user without a record.
NoPref == [exists |-> FALSE, preferred_currencies |-> <<>>, decimal_precision |-> 2]
DefaultPref == [exists |-> TRUE, preferred_currencies |-> <<>>, decimal_precision |-> 2]

InSeq(x, s) == \E i \in 1..Len(s) : s[i] = x

NoTx == [customer |-> None, input_amount |-> Dec(0, 0, 0, 0), input_currency |-> None,
         output_amount |-> Dec(0, 0, 0, 0), output_currency |-> None]

\* A response: the HTTP status, errors.message (or the exception that
\* escaped, under status 500), the serializer's failing fields, and the
\* transaction a 201 carries.
Response(status, message) ==
    [status |-> status, message |-> message, errs |-> {}, tx |-> NoTx]

(***************************************************************************)
(* TransactionSerializer: the DRF DecimalField built from the model's      *)
(* max_digits and decimal_places, then the validate_<field> methods.       *)
(***************************************************************************)
INPUT_MAX_DIGITS == 15
INPUT_DECIMAL_PLACES == 3
OUTPUT_MAX_DIGITS == 15
OUTPUT_DECIMAL_PLACES == 5

\* DecimalField.validate_precision fails: too many digits in all, after the
\* point, or before it.
FieldInvalid(d, max_digits, decimal_places) ==
    LET n == CoefDigits(d)
        total == IF d.e >= 0 THEN n + d.e ELSE IF n > -d.e THEN n ELSE -d.e
        whole == IF d.e >= 0 THEN n + d.e ELSE IF n > -d.e THEN n + d.e ELSE 0
        places == IF d.e >= 0 THEN 0 ELSE -d.e
    IN  \/ total > max_digits
        \/ places > decimal_places
        \/ whole > max_digits - decimal_places

\* The input_amount field fails: the field's precision check, or
\* validate_input_amount's "Amount must be greater than zero."
InputAmountInvalid(a) ==
    \/ ~Parses(a)
    \/ FieldInvalid(DecimalOf[a.text], INPUT_MAX_DIGITS, INPUT_DECIMAL_PLACES)
    \/ NonPositive(Quantize(DecimalOf[a.text], INPUT_DECIMAL_PLACES))

ValidatedInput(a) == Quantize(DecimalOf[a.text], INPUT_DECIMAL_PLACES)

\* validate_output_amount on the field's value: quantize to the requesting
\* user's decimal_precision.
ValidateOutputAmount(value, precision) == Quantize(value, precision)

OutputAmountInvalid(out, precision) ==
    \/ FieldInvalid(out, OUTPUT_MAX_DIGITS, OUTPUT_DECIMAL_PLACES)
    \/ QuantizeRaises(Quantize(out, OUTPUT_DECIMAL_PLACES), precision, ContextPrec)

ValidatedOutput(out, precision) ==
    ValidateOutputAmount(Quantize(out, OUTPUT_DECIMAL_PLACES), precision)

\* The customer field is a required primary key of an existing user, read
\* from request.data['customer'].
CustomerInvalid(req) == req.customer \notin Users

\* The fields serializer.is_valid() reports.
SerializerErrors(req, out, precision) ==
    (IF CustomerInvalid(req) THEN {"customer"} ELSE {})
    \cup (IF InputAmountInvalid(req.input_amount) THEN {"input_amount"} ELSE {})
    \cup (IF OutputAmountInvalid(out, precision) THEN {"output_amount"} ELSE {})

(***************************************************************************)
(* Transaction.save                                                        *)
(***************************************************************************)
Clamp(p) == IF p < 0 THEN 0 ELSE IF p > 10 THEN 10 ELSE p

\* The precision save() rounds with: the owning customer's, or 2 when the
\* customer has no preference record, clamped to [0,10].
SavePrecision(customer) ==
    Clamp(IF prefs[customer].exists THEN prefs[customer].decimal_precision ELSE 2)

SaveRaises(customer, vin, vout) ==
    \/ QuantizeRaises(vin, SavePrecision(customer), ContextPrec)
    \/ QuantizeRaises(vout, SavePrecision(customer), ContextPrec)

SavedTransaction(req, vin, vout) ==
    [customer |-> req.customer,
     input_amount |-> Quantize(vin, SavePrecision(req.customer)),
     input_currency |-> req.input_currency,
     output_amount |-> Quantize(vout, SavePrecision(req.customer)),
     output_currency |-> req.output_currency]

(***************************************************************************)
(* TransactionCreateView.create                                            *)
(***************************************************************************)
CONVERT_PLACES == 2
DIGIT_LIMIT == 15

\* output_currency not in subscribed_currencies
NotSubscribed(u, req) ==
    ~InSeq(req.output_currency, prefs[u].preferred_currencies)

\* not all([input_currency, output_currency, input_amount])
MissingFields(req) ==
    \/ req.input_currency = None
    \/ req.output_currency = None
    \/ ~Truthy(req.input_amount)

\* A cache whose stored rates come back rounded to two places.
CachedRateRounded(req) ==
    LET key == RateKey(req.input_currency, req.output_currency)
    IN  IF Live(cache, key) THEN Quantize(CacheGet(cache, key), 2) ELSE JNone

\* The rate the cache serves for the pair, None on a miss.
CachedRate(req) ==
    LET key == RateKey(req.input_currency, req.output_currency)
    IN  IF Live(cache, key) THEN CacheGet(cache, key) ELSE JNone

\* if exchange_rate: the cached value is used
CacheHit(req) == RateTruthy(CachedRate(req))

\* The request passes the view's checks and gets to the cache lookup.
Reaches(u, req) ==
    /\ prefs[u].exists
    /\ ~NotSubscribed(u, req)
    /\ ~MissingFields(req)
    /\ Parses(req.input_amount)

\* The provider call of a miss ends in the except branch.
FetchFails(prov) == prov.raised \/ prov.conversion_rate = JNone

\* (input_amount * Decimal(exchange_rate)).quantize(Decimal('0.01'))
ViewOutput(amount, rate) == Quantize(DecMul(amount, rate), CONVERT_PLACES)

ViewOutputRaises(amount, rate) ==
    QuantizeRaises(DecMul(amount, rate), CONVERT_PLACES, ContextPrec)

\* len(str(output_amount).replace('.', '')) > 15
ExceedsLimit(out) == StrLenNoPoint(out) > DIGIT_LIMIT

\* What one run of the handler leaves: the response, the cache, the stored
\* transactions, the provider calls made and the rate computed with.
Outcome(resp, c, t, calls, rate) ==
    [resp |-> resp, cache |-> c, txs |-> t, calls |-> calls, rate |-> rate]

\* super().create(): the serializer, then Transaction.save.
CreateOutcome(u, req, out, c, calls, rate) ==
    LET errs == SerializerErrors(req, out, prefs[u].decimal_precision)
        vin == ValidatedInput(req.input_amount)
        vout == ValidatedOutput(out, prefs[u].decimal_precision)
    IN  IF errs # {}
        THEN Outcome([Response(400, "Invalid input.") EXCEPT !.errs = errs],
                     c, txs, calls, rate)
        ELSE IF SaveRaises(req.customer, vin, vout)
        THEN Outcome(Response(500, "ValueError"), c, txs, calls, rate)
        ELSE Outcome([Response(201, "Created") EXCEPT
                          !.tx = SavedTransaction(req, vin, vout)],
                     c, Append(txs, SavedTransaction(req, vin, vout)), calls, rate)

\* From the computation of the output amount on.
ComputeOutcome(u, req, c, calls, rate) ==
    LET amount == DecimalOf[req.input_amount.text]
    IN  IF ViewOutputRaises(amount, rate)
        THEN Outcome(Response(500, "InvalidOperation"), c, txs, calls, rate)
        ELSE IF ExceedsLimit(ViewOutput(amount, rate))
        THEN Outcome(Response(400, "Output amount exceeds precision limit"),
                     c, txs, calls, rate)
        ELSE CreateOutcome(u, req, ViewOutput(amount, rate), c, calls, rate)

\* From the cache lookup on.
ResolveOutcome(u, req, prov) ==
    IF CacheHit(req) THEN ComputeOutcome(u, req, cache, 0, CachedRate(req))
    ELSE IF FetchFails(prov)
    THEN Outcome(Response(502, "Failed to fetch exchange rate"), cache, txs, 1, JNone)
    ELSE ComputeOutcome(u, req,
             CacheSet(cache, RateKey(req.input_currency, req.output_currency),
                      prov.conversion_rate, RATE_TIMEOUT),
             1, prov.conversion_rate)

ConvertOutcome(u, req, prov) ==
    IF ~prefs[u].exists
    THEN Outcome(Response(500, "RelatedObjectDoesNotExist"), cache, txs, 0, JNone)
    ELSE IF NotSubscribed(u, req)
    THEN Outcome(Response(400, "Currency not in subscription list"), cache, txs, 0, JNone)
    ELSE IF MissingFields(req)
    THEN Outcome(Response(400, "Missing required fields"), cache, txs, 0, JNone)
    ELSE IF ~Parses(req.input_amount)
    THEN Outcome(Response(400, "Invalid input amount"), cache, txs, 0, JNone)
    ELSE ResolveOutcome(u, req, prov)

(***************************************************************************)
(* TransactionListView and TransactionDetailView.  A transaction's id is   *)
(* its position in txs.                                                    *)
(***************************************************************************)
\* Transaction.objects.filter(customer_id=self.request.user.id)
ListQueryset(u) == {i \in 1..Len(txs) : txs[i].customer = u}

\* queryset = Transaction.objects.all(), lookup_field = 'id'
DetailQueryset(u) == 1..Len(txs)

(***************************************************************************)
(* The available-currency snapshot, cached under one key by two views:     *)
(* AvailableCurrenciesListView caches the whole decoded answer (a dict),   *)
(* UserPreferenceUpdateView caches the list of conversion_rates keys.      *)
(* keys is what the "in" operator tests against.                           *)
(***************************************************************************)
SnapDict(prov) ==
    [shape |-> "dict",
     keys |-> IF prov.has_table THEN LatestKeys ELSE LatestKeys \ {"conversion_rates"},
     rates |-> prov.conversion_rates]

SnapList(codes) == [shape |-> "list", keys |-> codes, rates |-> {}]

NoSnap == [shape |-> "none", keys |-> {}, rates |-> {}]

\* bool(cached_data): an empty list is falsy.
SnapTruthy(v) == v.keys # {}

CachedSnapshot ==
    IF Live(cache, SnapshotKey) THEN CacheGet(cache, SnapshotKey) ELSE NoSnap

\* AvailableCurrenciesListView.get
CurrenciesOutcome(prov) ==
    IF SnapTruthy(CachedSnapshot)
    THEN [resp |-> Response(200, "Available currencies fetched from cache."),
          cache |-> cache, calls |-> 0, data |-> CachedSnapshot]
    ELSE IF prov.raised
    THEN [resp |-> Response(502, "Failed to fetch currencies from external API"),
          cache |-> cache, calls |-> 1, data |-> NoSnap]
    ELSE [resp |-> Response(200, "Available currencies fetched successfully."),
          cache |-> CacheSet(cache, SnapshotKey, SnapDict(prov), SNAPSHOT_TIMEOUT),
          calls |-> 1, data |-> SnapDict(prov)]

(***************************************************************************)
(* UserPreferenceUpdateView.update                                         *)
(***************************************************************************)
\* request.data.get('decimal_precision', 2): an int, or a value of another
\* JSON type.
IntPrec(v) == [int |-> TRUE, v |-> v]
NonIntPrec == [int |-> FALSE, v |-> 0]

\* not isinstance(decimal_precision, int) or decimal_precision < 0
PrecisionRejected(prec) == ~prec.int \/ prec.v < 0

\* UserPreference.save raises ValueError
PreferenceSaveRaises(p) == ~(0 <= p /\ p <= 10)


\* get_object: the user's record, created with the defaults when absent.
GetObject(u) == IF prefs[u].exists THEN prefs[u] ELSE DefaultPref

\* preferences.save() wrote the record.
Saved(u, sel, p) ==
    [prefs EXCEPT ![u] = [exists |-> TRUE, preferred_currencies |-> sel,
                          decimal_precision |-> p]]

\* A save() that checks the range after super().save(): the record is
\* written and then the error is raised.
SaveThenValidate(u, sel, p) == Saved(u, sel, p)

\* preferences.save() raised before super().save() ran: the fields assigned
\* to the object are not written; the record get_object created stays.
FailedSave(u, sel, p) == [prefs EXCEPT ![u] = GetObject(u)]

UpdateValidate(u, sel, prec, avail, c, calls) ==
    IF Len(sel) # 3
    THEN [resp |-> Response(400, "Please select exactly three currency pairs."),
          cache |-> c, calls |-> calls, prefs |-> prefs]
    ELSE IF \E i \in 1..Len(sel) : sel[i] \notin avail
    THEN [resp |-> Response(400, "Invalid currency pairs"),
          cache |-> c, calls |-> calls, prefs |-> prefs]
    ELSE IF PrecisionRejected(prec)
    THEN [resp |-> Response(400, "Decimal precision must be a positive integer."),
          cache |-> c, calls |-> calls, prefs |-> prefs]
    ELSE IF PreferenceSaveRaises(prec.v)
    THEN [resp |-> Response(500, "ValueError"),
          cache |-> c, calls |-> calls,
          prefs |-> FailedSave(u, sel, prec.v)]
    ELSE [resp |-> Response(200, "User preferences updated successfully."),
          cache |-> c, calls |-> calls,
          prefs |-> Saved(u, sel, prec.v)]

UpdateOutcome(u, sel, prec, prov) ==
    IF SnapTruthy(CachedSnapshot)
    THEN UpdateValidate(u, sel, prec, CachedSnapshot.keys, cache, 0)
    ELSE IF prov.raised
    THEN [resp |-> Response(502, "Failed to fetch available currencies from external API"),
          cache |-> cache, calls |-> 1, prefs |-> prefs]
    ELSE UpdateValidate(u, sel, prec, prov.conversion_rates,
             CacheSet(cache, SnapshotKey, SnapList(prov.conversion_rates),
                      SNAPSHOT_TIMEOUT), 1)

(***************************************************************************)
(* The state machine.  Requests are served one at a time: a handler runs   *)
(* from the idle service and leaves in last the operation it ran (caller,  *)
(* arguments, the provider's answer when it was called, what cache.get     *)
(* returned (cached for a rate, snapshot for the currency snapshot), the   *)
(* response); Deliver hands the response over and returns the service to   *)
(* idle.                                                                   *)
(***************************************************************************)
MaxTx == 1

NoReq == [input_currency |-> None, output_currency |-> None,
          input_amount |-> Absent, customer |-> None]

Idle(op) ==
    [op |-> op, user |-> None, req |-> NoReq, prov |-> NotCalled,
     resp |-> Response(0, ""), calls |-> 0, rate |-> JNone, cached |-> JNone,
     snapshot |-> NoSnap, returned |-> {}, id |-> 0, data |-> NoSnap,
     sel |-> <<>>, prec |-> NonIntPrec]

EmptyCache == [k \in {} |-> NoSnap]

\* The worker threads that serve convert requests side by side, and what a
\* worker holds of the request it is serving: its place in create, the
\* caller, the request, the local exchange_rate, the provider calls made,
\* the response, and the number of requests it has taken so far.
Workers == {"w1", "w2"}

NoFlight ==
    [pc |-> "idle", user |-> None, req |-> NoReq, rate |-> JNone, calls |-> 0,
     resp |-> Response(0, ""), served |-> 0]

Init ==
    /\ prefs \in [Users -> {DefaultPref, NoPref}]
    /\ cache = EmptyCache
    /\ txs = <<>>
    /\ last = Idle("idle")
    /\ flight = [w \in Workers |-> NoFlight]

IsIdle == last.op = "idle"

\* POST transactions/create/
Convert(u, req, prov) ==
    /\ IsIdle
    /\ Len(txs) < MaxTx
    /\ LET o == ConvertOutcome(u, req, prov)
       IN  /\ cache' = o.cache
           /\ txs' = o.txs
           /\ last' = [Idle("convert") EXCEPT
                          !.user = u, !.req = req,
                          !.prov = IF o.calls = 0 THEN NotCalled ELSE prov,
                          !.resp = o.resp, !.calls = o.calls, !.rate = o.rate,
                          !.cached = IF Reaches(u, req) THEN CachedRate(req) ELSE JNone]
    /\ UNCHANGED <<prefs, flight>>

\* GET transactions/
ListTransactions(u) ==
    /\ IsIdle
    /\ last' = [Idle("list") EXCEPT
                   !.user = u, !.resp = Response(200, "Transactions fetched successfully."),
                   !.returned = ListQueryset(u)]
    /\ UNCHANGED <<prefs, cache, txs, flight>>

\* GET transactions/<id>/
RetrieveTransaction(u, id) ==
    /\ IsIdle
    /\ last' = IF id \in DetailQueryset(u)
               THEN [Idle("retrieve") EXCEPT
                        !.user = u, !.id = id, !.returned = {id},
                        !.resp = Response(200, "Transaction details fetched successfully.")]
               ELSE [Idle("retrieve") EXCEPT
                        !.user = u, !.id = id, !.resp = Response(404, "Not found.")]
    /\ UNCHANGED <<prefs, cache, txs, flight>>

\* GET currencies/
ListAvailableCurrencies(prov) ==
    /\ IsIdle
    /\ LET o == CurrenciesOutcome(prov)
       IN  /\ cache' = o.cache
           /\ last' = [Idle("currencies") EXCEPT
                          !.prov = IF o.calls = 0 THEN NotCalled ELSE prov,
                          !.resp = o.resp, !.calls = o.calls, !.data = o.data,
                          !.snapshot = CachedSnapshot]
    /\ UNCHANGED <<prefs, txs, flight>>

\* PUT update-preferences/
UpdatePreferences(u, sel, prec, prov) ==
    /\ IsIdle
    /\ LET o == UpdateOutcome(u, sel, prec, prov)
       IN  /\ cache' = o.cache
           /\ prefs' = o.prefs
           /\ last' = [Idle("update") EXCEPT
                          !.user = u, !.sel = sel, !.prec = prec,
                          !.prov = IF o.calls = 0 THEN NotCalled ELSE prov,
                          !.resp = o.resp, !.calls = o.calls,
                          !.snapshot = CachedSnapshot]
    /\ UNCHANGED <<txs, flight>>

\* The response reaches the caller.
Deliver ==
    /\ ~IsIdle
    /\ last' = Idle("idle")
    /\ UNCHANGED <<prefs, cache, txs, flight>>

\* Time passes: every entry ages by d seconds.  An age past the entry's
\* timeout is kept as timeout + 1, the entry being dead from then on.
Aged(e, d) ==
    [e EXCEPT !.age = IF e.age + d > e.timeout THEN e.timeout + 1 ELSE e.age + d]

Tick(d) ==
    /\ IsIdle
    /\ cache' = [k \in DOMAIN cache |-> Aged(cache[k], d)]
    /\ UNCHANGED <<prefs, txs, last, flight>>

(***************************************************************************)
(* The service under small inputs: every operation, one currency pair.     *)
(***************************************************************************)
InCurrencies == {"USD", None}
OutCurrencies == {"EUR", "USD", None}
Amounts == {Absent, Num("0"), Str("0"), Str("-5"), Str("abc"), Str("1")}
Customers == {"u1", None}

Requests ==
    [input_currency : InCurrencies, output_currency : OutCurrencies,
     input_amount : Amounts, customer : Customers]

PairAnswers ==
    {Unreachable, PairJson(JNone), PairJson(Rate0), PairJson(Rate0125), PairJson(Rate05)}

LatestAnswers == {Unreachable, LatestJson(ProviderCodes, TRUE), LatestJson({}, FALSE)}

Subscription == <<"EUR", "GBP", "JPY">>

Delays == {3599, 3601}

TxIds == 1..MaxTx

Next ==
    \/ \E u \in Users, req \in Requests, prov \in PairAnswers : Convert(u, req, prov)
    \/ \E u \in Users : ListTransactions(u)
    \/ \E u \in Users, id \in TxIds : RetrieveTransaction(u, id)
    \/ \E prov \in LatestAnswers : ListAvailableCurrencies(prov)
    \/ \E u \in Users, prov \in LatestAnswers :
           UpdatePreferences(u, Subscription, IntPrec(2), prov)
    \/ \E d \in Delays : Tick(d)
    \/ Deliver

Spec == Init /\ [][Next]_vars

(***************************************************************************)
(* The amount computation under wide inputs: one pair, amounts of every    *)
(* size, precisions over [0,10], no passing of time.                       *)
(***************************************************************************)
AmountTexts == {"1", "3.61", "100.00", "1.0005", "100000000000",
                "100000000000000", "1E+27", "-5"}

AmountRequests ==
    [input_currency : {"USD"}, output_currency : {"EUR"},
     input_amount : {Str(t) : t \in AmountTexts}, customer : Users \cup {None}]

AmountPrecisions == {IntPrec(0), IntPrec(1), IntPrec(2), IntPrec(3), IntPrec(10)}

AmountAnswers == {PairJson(Rate0125), PairJson(Rate05), PairJson(Rate1000)}

NextAmounts ==
    \/ \E u \in Users, req \in AmountRequests, prov \in AmountAnswers :
           Convert(u, req, prov)
    \/ \E u \in Users, prec \in AmountPrecisions :
           UpdatePreferences(u, Subscription, prec, LatestJson(ProviderCodes, TRUE))
    \/ Deliver

SpecAmounts == Init /\ [][NextAmounts]_vars

(***************************************************************************)
(* The preference profile under wide inputs: every kind of selection and   *)
(* precision, both writers of the snapshot, the passing of time.           *)
(***************************************************************************)
Selections ==
    {Subscription, <<"USD", "EUR", "GBP">>, <<"EUR", "GBP">>,
     <<"EUR", "GBP", "JPY", "USD">>, <<"EUR", "GBP", "XXX">>,
     <<"EUR", "EUR", "GBP">>}

Precisions == {IntPrec(0), IntPrec(4), IntPrec(-1), IntPrec(11), NonIntPrec}

NextPrefs ==
    \/ \E u \in Users, sel \in Selections, prec \in Precisions, prov \in LatestAnswers :
           UpdatePreferences(u, sel, prec, prov)
    \/ \E prov \in LatestAnswers : ListAvailableCurrencies(prov)
    \/ \E d \in Delays : Tick(d)
    \/ Deliver

SpecPrefs == Init /\ [][NextPrefs]_vars

(***************************************************************************)
(* The convert handler under currency codes in either letter case: one     *)
(* pair, every provider answer, the passing of time.                       *)
(***************************************************************************)
CaseRequests ==
    [input_currency : {"USD", "usd"}, output_currency : {"EUR", "eur"},
     input_amount : {Str("1")}, customer : {"u1"}]

NextCase ==
    \/ \E u \in Users, req \in CaseRequests, prov \in PairAnswers : Convert(u, req, prov)
    \/ \E u \in Users :
           UpdatePreferences(u, Subscription, IntPrec(2), LatestJson(ProviderCodes, TRUE))
    \/ \E d \in Delays : Tick(d)
    \/ Deliver

SpecCase == Init /\ [][NextCase]_vars

(***************************************************************************)
(* Convert requests served side by side.  create runs in steps, the other  *)
(* workers' steps coming in between: the view's checks, cache.get, the     *)
(* provider call, cache.set, and the computation with super().create().    *)
(* cache.get and cache.set are each one step of the cache backend.  The    *)
(* provider quotes each directional pair from rates of its own, which may  *)
(* change from one call to the next.  Every caller keeps precision 2.      *)
(***************************************************************************)
MaxServed == 1

BothWays == <<"USD", "EUR", "GBP">>

\* The rates the provider returns for the pair /pair/A/B.
PairRates(a, b) ==
    IF a = "USD" /\ b = "EUR" THEN {Rate05, Rate0125}
    ELSE IF a = "EUR" /\ b = "USD" THEN {Rate1000}
    ELSE {}

\* What a call of get_exchange_rate_url(..., input_currency, output_currency)
\* can come back with.
AnswersFor(req) ==
    {Unreachable, PairJson(JNone)}
        \cup {PairJson(r) : r \in PairRates(Upper(req.input_currency),
                                            Upper(req.output_currency))}

ConcurrentRequests ==
    {req \in [input_currency : {"USD", "EUR"}, output_currency : {"USD", "EUR"},
              input_amount : {Str("1")}, customer : {"u1"}] :
        req.input_currency # req.output_currency}

\* create up to the cache lookup: the preference record, the subscription,
\* the required fields and Decimal(input_amount).
ConvertStart(w, u, req) ==
    /\ flight[w].pc = "idle"
    /\ flight[w].served < MaxServed
    /\ flight' = [flight EXCEPT ![w] =
           IF Reaches(u, req)
           THEN [@ EXCEPT !.pc = "lookup", !.user = u, !.req = req,
                          !.served = @ + 1]
           ELSE [@ EXCEPT !.pc = "done", !.user = u, !.req = req,
                          !.served = @ + 1,
                          !.resp = ConvertOutcome(u, req, NotCalled).resp]]
    /\ UNCHANGED <<prefs, cache, txs, last>>

\* exchange_rate = cache.get(cache_key); if exchange_rate: ...
ConvertLookup(w) ==
    /\ flight[w].pc = "lookup"
    /\ flight' = [flight EXCEPT ![w] =
           IF CacheHit(flight[w].req)
           THEN [@ EXCEPT !.pc = "compute", !.rate = CachedRate(flight[w].req)]
           ELSE [@ EXCEPT !.pc = "fetch"]]
    /\ UNCHANGED <<prefs, cache, txs, last>>

\* exchange_rate = fetch_data_from_api(url).get('conversion_rate'), the
\* failure and the missing rate ending the request in the except branch.
ConvertFetch(w, prov) ==
    /\ flight[w].pc = "fetch"
    /\ flight' = [flight EXCEPT ![w] =
           IF FetchFails(prov)
           THEN [@ EXCEPT !.pc = "done", !.calls = 1,
                          !.resp = Response(502, "Failed to fetch exchange rate")]
           ELSE [@ EXCEPT !.pc = "set", !.calls = 1, !.rate = prov.conversion_rate]]
    /\ UNCHANGED <<prefs, cache, txs, last>>

\* cache.set(cache_key, exchange_rate, timeout=3600)
ConvertCacheSet(w) ==
    /\ flight[w].pc = "set"
    /\ cache' = CacheSet(cache,
                    RateKey(flight[w].req.input_currency, flight[w].req.output_currency),
                    flight[w].rate, RATE_TIMEOUT)
    /\ flight' = [flight EXCEPT ![w].pc = "compute"]
    /\ UNCHANGED <<prefs, txs, last>>

\* The output amount, the digit limit and super().create().
ConvertFinish(w) ==
    /\ flight[w].pc = "compute"
    /\ LET o == ComputeOutcome(flight[w].user, flight[w].req, cache,
                               flight[w].calls, flight[w].rate)
       IN  /\ txs' = o.txs
           /\ flight' = [flight EXCEPT ![w].pc = "done", ![w].resp = o.resp]
    /\ UNCHANGED <<prefs, cache, last>>

\* The response reaches the caller and the worker is free again.
ConvertReturn(w) ==
    /\ flight[w].pc = "done"
    /\ flight' = [flight EXCEPT ![w] = [NoFlight EXCEPT !.served = flight[w].served]]
    /\ UNCHANGED <<prefs, cache, txs, last>>

NextConcurrent ==
    \/ \E w \in Workers, u \in Users, req \in ConcurrentRequests : ConvertStart(w, u, req)
    \/ \E w \in Workers : ConvertLookup(w)
    \/ \E w \in Workers : \E prov \in AnswersFor(flight[w].req) : ConvertFetch(w, prov)
    \/ \E w \in Workers : ConvertCacheSet(w)
    \/ \E w \in Workers : ConvertFinish(w)
    \/ \E w \in Workers : ConvertReturn(w)
    \/ UpdatePreferences("u1", BothWays, IntPrec(2), LatestJson(ProviderCodes, TRUE))
    \/ Tick(RATE_TIMEOUT)
    \/ Deliver

SpecConcurrent == Init /\ [][NextConcurrent]_vars

(***************************************************************************)
(* Properties.                                                             *)
(***************************************************************************)
\* The classes of a convert response.
Created(l) == l.resp.status = 201
CurrencyNotSubscribed(l) == l.resp.message = "Currency not in subscription list"
MissingField(l) == l.resp.message = "Missing required fields"
InvalidAmount(l) ==
    l.resp.message = "Invalid input amount" \/ "input_amount" \in l.resp.errs
UpstreamError(l) == l.resp.status = 502
PrecisionLimitExceeded(l) == l.resp.message = "Output amount exceeds precision limit"
Unclassified(l) == l.resp.status = 500

\* The request names its caller as the customer and its currencies are
\* present, in upper case and subscribed.
WellAddressed(l) ==
    /\ prefs[l.user].exists
    /\ l.req.customer = l.user
    /\ l.req.input_currency # None
    /\ InSeq(l.req.output_currency, prefs[l.user].preferred_currencies)

\* C1: a convert that persists a Transaction stores as output_amount the
\* product input_amount x rate rounded once to the requesting user's
\* precision p: exactly p fractional digits, no earlier rounding to another
\* number of digits.  Stated for requests that name their caller as customer
\* and whose input amount is stored as it was sent (it has no more than p
\* fractional digits).
C1_OutputRoundedOnce ==
    (/\ last.op = "convert"
     /\ Created(last)
     /\ last.req.customer = last.user
     /\ NumEq(last.resp.tx.input_amount, DecimalOf[last.req.input_amount.text])) =>
        last.resp.tx.output_amount =
            Quantize(DecMul(DecimalOf[last.req.input_amount.text], last.rate),
                     Clamp(prefs[last.user].decimal_precision))

\* C2: a convert whose input_amount is zero, negative or unparseable is
\* rejected as InvalidAmount whatever the cache and the provider do.  Stated
\* for requests whose other fields are in order.
C2_BadAmountRejectedAsInvalid ==
    (/\ last.op = "convert"
     /\ WellAddressed(last)
     /\ last.req.input_amount \in {Num("0"), Str("0"), Str("-5"), Str("abc")})
        => InvalidAmount(last)

\* C3: the list operation and the retrieve-by-id operation invoked by a user
\* return only transactions whose owning customer is that user.
C3_OnlyOwnTransactions ==
    last.op \in {"list", "retrieve"} =>
        \A i \in last.returned : txs[i].customer = last.user

\* C4: every convert ends with a persisted Transaction or with a rejection
\* of one of the three classes; no failure escapes unclassified.
C4_NoUnclassifiedFailure ==
    last.op = "convert" =>
        \/ Created(last)
        \/ (last.resp.status = 400 /\ ~Unclassified(last))
        \/ UpstreamError(last)

\* The key of the pair the convert just run asked for.
LastKey(l) == RateKey(l.req.input_currency, l.req.output_currency)

\* The step is a convert that got to the cache lookup.
ConvertLooksUp == last'.op = "convert" /\ Reaches(last'.user, last'.req)

\* C5: once a convert has fetched and cached a rate for a pair, every later
\* convert for that pair before the entry expires makes no provider call and
\* computes with the cached rate.
C5_CachedRateReused ==
    [][(ConvertLooksUp /\ Live(cache, LastKey(last'))) =>
          (last'.calls = 0 /\ last'.rate = cache[LastKey(last')].value)]_vars

\* The step is an operation that looks the snapshot entry up.
SnapshotLooksUp == last'.op \in {"update", "currencies"}

\* C6: an entry written at t0 is a hit for a lookup at t0+3599s and a miss
\* for a lookup at t0+3601s, the rate entries and the snapshot entry alike,
\* and a convert never computes with an expired entry: after a miss its rate
\* is the one the provider call of that request returned.
C6_TtlBoundary ==
    [][/\ ConvertLooksUp =>
            \A k \in DOMAIN cache : k = LastKey(last') =>
                /\ cache[k].age <= 3599 => last'.cached = cache[k].value
                /\ cache[k].age >= 3601 =>
                      /\ last'.cached = JNone
                      /\ last'.calls = 1
                      /\ last'.rate \in {JNone, last'.prov.conversion_rate}
       /\ SnapshotLooksUp =>
            \A k \in DOMAIN cache : k = SnapshotKey =>
                /\ cache[k].age <= 3599 => last'.snapshot = cache[k].value
                /\ cache[k].age >= 3601 => (last'.snapshot = NoSnap /\ last'.calls = 1)
      ]_vars

\* C6 witness: a convert was served a rate entry 3599s old and computed with
\* it, while the snapshot entry, 3601s old by then, is dead.
C6_Witness ==
    /\ last.op = "convert"
    /\ last.calls = 0
    /\ LastKey(last) \in DOMAIN cache
    /\ cache[LastKey(last)].age = 3599
    /\ last.rate = cache[LastKey(last)].value
    /\ SnapshotKey \in DOMAIN cache
    /\ cache[SnapshotKey].age = 3601

\* C7: on a miss an unreachable provider and an answer without
\* conversion_rate are both rejected as upstream errors, and the two
\* responses differ, so that the caller can tell the reasons apart.
C7_UpstreamReasonsDistinct ==
    [][(last'.op = "convert" /\ last'.calls = 1 /\ last'.prov = PairJson(JNone)) =>
          /\ UpstreamError(last')
          /\ UpstreamError([resp |-> ConvertOutcome(last'.user, last'.req, Unreachable).resp])
          /\ last'.resp # ConvertOutcome(last'.user, last'.req, Unreachable).resp]_vars

\* C8: an output currency outside the caller's subscribed set is rejected
\* with CurrencyNotSubscribed and nothing is persisted; and that reason is
\* given only to a request that supplied an output currency (a missing one
\* is rejected with MissingField).  Stated for callers with a preference
\* record.
C8_NotSubscribedOnlyForSuppliedCurrency ==
    [][(last'.op = "convert" /\ prefs[last'.user].exists) =>
          /\ (/\ last'.req.output_currency # None
              /\ ~InSeq(last'.req.output_currency, prefs[last'.user].preferred_currencies))
                => (CurrencyNotSubscribed(last') /\ txs' = txs)
          /\ CurrencyNotSubscribed(last') => last'.req.output_currency # None
          /\ last'.req.output_currency = None => MissingField(last')]_vars

\* The digits of a decimal written without exponent, the sign and the
\* separator left out.
DigitCount(d) == StrLenNoPoint(d) - d.s

\* The product input_amount x rate of the convert just run, rounded to the
\* caller's precision.
OutputAtPrecision(l) ==
    Quantize(DecMul(DecimalOf[l.req.input_amount.text], l.rate),
             Clamp(prefs[l.user].decimal_precision))

\* C9: when the quantized output amount has more than 15 digits the request
\* is rejected with PrecisionLimitExceeded and nothing is persisted; when it
\* has at most 15 and the earlier steps succeeded, a Transaction is
\* persisted.  Stated for requests that name their caller as customer and
\* whose amount the input_amount field accepts (strictly positive, at most
\* 3 decimal places and 12 integer digits), once a rate has been resolved,
\* for callers of precision 2 (the places the view itself rounds to).
C9_DigitLimitDecides ==
    [][(/\ last'.op = "convert"
        /\ WellAddressed(last')
        /\ prefs[last'.user].decimal_precision = 2
        /\ ~InputAmountInvalid(last'.req.input_amount)
        /\ last'.rate # JNone) =>
          IF DigitCount(OutputAtPrecision(last')) > 15
          THEN PrecisionLimitExceeded(last') /\ txs' = txs
          ELSE Created(last') /\ txs' = Append(txs, last'.resp.tx)]_vars

\* The two stored fields of a user's preference; a user without a record
\* has the defaults the record is created with.
StoredFields(pref) == <<pref.preferred_currencies, pref.decimal_precision>>

\* C10: an update_preferences call that does not succeed leaves the caller's
\* stored currencies and stored precision as they were; one that succeeds
\* stores the request's currencies and the request's precision together; no
\* call touches another user's preference.
C10_UpdateAllOrNothing ==
    [][last'.op = "update" =>
          /\ \A v \in Users \ {last'.user} : prefs'[v] = prefs[v]
          /\ IF last'.resp.status = 200
             THEN StoredFields(prefs'[last'.user]) = <<last'.sel, last'.prec.v>>
             ELSE StoredFields(prefs'[last'.user]) = StoredFields(prefs[last'.user])]_vars

\* C10 witness: a call selecting two currencies was rejected while the
\* caller's stored preference, set by an earlier call, is still in place.
C10_Witness ==
    /\ last.op = "update"
    /\ last.resp.status = 400
    /\ Len(last.sel) = 2
    /\ prefs[last.user].preferred_currencies = <<"USD", "EUR", "GBP">>
    /\ prefs[last.user].decimal_precision = 4

\* The currencies the update just run validated the selection against: the
\* cached snapshot when cache.get returned a truthy one, the provider's
\* table otherwise.
AvailableTo(l) ==
    IF SnapTruthy(l.snapshot) THEN l.snapshot.keys ELSE l.prov.conversion_rates

\* The update just run got past the snapshot and the selection checks.
SelectionPassed(l) ==
    /\ SnapTruthy(l.snapshot) \/ (l.calls = 1 /\ ~l.prov.raised)
    /\ Len(l.sel) = 3
    /\ \A i \in 1..Len(l.sel) : l.sel[i] \in AvailableTo(l)

PrecisionInvalid(l) ==
    l.resp.status = 400 /\ l.resp.message = "Decimal precision must be a positive integer."

\* C11: an update_preferences call whose selection is in order is accepted
\* when its precision is an integer in [0,10], and is rejected with the
\* precision-specific validation error when the precision is an integer
\* below 0 or above 10 or is no integer.
C11_PrecisionRangeValidated ==
    (last.op = "update" /\ SelectionPassed(last)) =>
        IF last.prec.int /\ 0 <= last.prec.v /\ last.prec.v <= 10
        THEN last.resp.status = 200
        ELSE PrecisionInvalid(last)

\* The uppercased directional key of the pair a request names.
UpperKey(req) == <<"exchange_rate", Upper(req.input_currency), Upper(req.output_currency)>>

\* C12: a convert that called the provider and got a rate r leaves r, fresh,
\* under the uppercased directional key of its pair and every other entry as
\* it was; a convert whose provider call failed or returned no rate leaves
\* the cache exactly as it was.
C12_WriteThrough ==
    [][(last'.op = "convert" /\ last'.calls = 1) =>
          IF last'.prov.raised \/ last'.prov.conversion_rate = JNone
          THEN cache' = cache
          ELSE /\ DOMAIN cache' = DOMAIN cache \cup {UpperKey(last'.req)}
               /\ cache'[UpperKey(last'.req)].value = last'.prov.conversion_rate
               /\ cache'[UpperKey(last'.req)].age = 0
               /\ \A k \in DOMAIN cache \ {UpperKey(last'.req)} : cache'[k] = cache[k]]_vars

\* C12 witness: a request that named its input currency in lower case missed,
\* and the rate the provider returned is in the cache under the upper-case key.
C12_Witness ==
    /\ last.op = "convert"
    /\ last.req.input_currency = "usd"
    /\ last.calls = 1
    /\ last.prov.conversion_rate = Rate0125
    /\ <<"exchange_rate", "USD", "EUR">> \in DOMAIN cache
    /\ cache[<<"exchange_rate", "USD", "EUR">>].value = Rate0125
    /\ cache[<<"exchange_rate", "USD", "EUR">>].age = 0

\* C13: the cache does not change the outcome of a conversion.  A convert
\* served from the cache answers what a miss answered by the provider with
\* the cached rate would have answered; and a convert that missed and got a
\* rate answers what a request served from the entry it wrote is answered.
\* The response carries the rejection reason or the Transaction's amounts
\* and currencies.
C13_CacheTransparent ==
    [][(last'.op = "convert" /\ Reaches(last'.user, last'.req)) =>
          /\ last'.calls = 0 =>
                last'.resp =
                    ComputeOutcome(last'.user, last'.req,
                        CacheSet(cache, UpperKey(last'.req),
                                 cache[UpperKey(last'.req)].value, RATE_TIMEOUT),
                        1, cache[UpperKey(last'.req)].value).resp
          /\ (last'.calls = 1 /\ ~FetchFails(last'.prov)) =>
                /\ cache'[UpperKey(last'.req)].value = last'.prov.conversion_rate
                /\ last'.resp =
                       ComputeOutcome(last'.user, last'.req, cache', 0,
                                      cache'[UpperKey(last'.req)].value).resp]_vars

\* C13 witness: a convert served from the cache persisted a Transaction
\* computed with the cached rate 0.125 for a caller of precision 3.
C13_Witness ==
    /\ last.op = "convert"
    /\ last.calls = 0
    /\ Created(last)
    /\ last.rate = Rate0125
    /\ prefs[last.user].decimal_precision = 3
    /\ last.req.input_amount = Str("100.00")

\* The request with its two currency codes in upper case.
Uppercased(req) ==
    [req EXCEPT !.input_currency = Upper(req.input_currency),
                !.output_currency = Upper(req.output_currency)]

\* C14: a convert request has the outcome of the request that differs from
\* it only in naming the two currencies in upper case, sent by the same user
\* in the same state with the same provider answer: the same rejection, or a
\* Transaction with the same amounts and the upper-case codes.
C14_CaseInsensitive ==
    [][\A u \in Users, req \in CaseRequests, prov \in PairAnswers :
          (last'.op = "convert" /\ last'.user = u /\ last'.req = req) =>
              last'.resp = ConvertOutcome(u, Uppercased(req),
                               IF last'.calls = 0 THEN prov ELSE last'.prov).resp]_vars

\* The request fails one of the validation checks: a field is missing, the
\* amount is unparseable or not strictly positive, or the output currency is
\* not subscribed.
FailsValidation(u, req) ==
    \/ MissingFields(req)
    \/ ~Parses(req.input_amount)
    \/ NonPositive(DecimalOf[req.input_amount.text])
    \/ NotSubscribed(u, req)

\* C15: validation completes before rate resolution starts: a convert whose
\* request fails a validation check looks no rate up, calls the provider no
\* time and leaves the cache as it was.  Stated for callers with a
\* preference record.
C15_ValidationBeforeResolution ==
    [][(/\ last'.op = "convert"
        /\ prefs[last'.user].exists
        /\ FailsValidation(last'.user, last'.req)) =>
          /\ ~Reaches(last'.user, last'.req)
          /\ last'.calls = 0
          /\ cache' = cache]_vars

\* The output amount the view finalized for the convert just run, as the
\* serializer hands it to the recorder.
FinalizedOutput(l) ==
    ValidatedOutput(ViewOutput(DecimalOf[l.req.input_amount.text], l.rate),
                    prefs[l.user].decimal_precision)

\* C16: the persisted Transaction holds the request's input amount and the
\* finalized output amount, neither of them rounded again by the recording.
C16_RecorderWritesThrough ==
    (last.op = "convert" /\ Created(last)) =>
        /\ NumEq(last.resp.tx.input_amount, DecimalOf[last.req.input_amount.text])
        /\ NumEq(last.resp.tx.output_amount, FinalizedOutput(last))

\* The snapshot the operation just run was served holds the provider's
\* conversion_rates table, whichever view cached it.
SnapshotOfTable(l) ==
    \/ l.snapshot.shape = "dict" /\ l.snapshot.rates = ProviderCodes
    \/ l.snapshot.shape = "list" /\ l.snapshot.keys = ProviderCodes

\* C17: whichever view populated the cached snapshot, (a) an update that
\* selects three codes of the provider's table with a precision in [0,10] is
\* accepted, and (b) the currency list returns the provider's mapping.
C17_SnapshotOneMeaning ==
    /\ (/\ last.op = "update"
        /\ SnapshotOfTable(last)
        /\ Len(last.sel) = 3
        /\ \A i \in 1..Len(last.sel) : last.sel[i] \in ProviderCodes
        /\ last.prec.int /\ 0 <= last.prec.v /\ last.prec.v <= 10)
           => last.resp.status = 200
    /\ (last.op = "currencies" /\ SnapshotOfTable(last))
           => (last.resp.status = 200 /\ last.data.shape = "dict"
               /\ last.data.rates = ProviderCodes)

\* C18: a Transaction persisted by a convert is owned by the user who made
\* the request, whatever the request body names as customer, and its amounts
\* carry that user's precision.
C18_OwnedByCaller ==
    (last.op = "convert" /\ Created(last)) =>
        /\ last.resp.tx.customer = last.user
        /\ -(last.resp.tx.output_amount.e) = Clamp(prefs[last.user].decimal_precision)

\* The codes a stored collection holds.
CodesOf(sel) == {sel[i] : i \in 1..Len(sel)}

\* C19: every user's stored subscribed currencies are either still empty or
\* exactly 3 distinct codes, each a code of the provider's table.
C19_ThreeDistinctCodes ==
    \A u \in Users :
        \/ prefs[u].preferred_currencies = <<>>
        \/ /\ Len(prefs[u].preferred_currencies) = 3
           /\ Cardinality(CodesOf(prefs[u].preferred_currencies)) = 3
           /\ CodesOf(prefs[u].preferred_currencies) \subseteq ProviderCodes

\* C20: a convert makes at most one provider call, none when the cache
\* holds a live entry for its pair, and a failed provider call ends the
\* request: it is rejected as an upstream error and nothing is persisted.
C20_NoRetry ==
    [][last'.op = "convert" =>
          /\ last'.calls \in {0, 1}
          /\ (Reaches(last'.user, last'.req) /\ Live(cache, UpperKey(last'.req)))
                => last'.calls = 0
          /\ (last'.calls = 1 /\ FetchFails(last'.prov))
                => (UpstreamError(last') /\ txs' = txs)]_vars

\* The rate entries of the cache.
RateEntries == {k \in DOMAIN cache : k[1] = "exchange_rate"}

\* C21: under every interleaving of convert requests, each rate entry is a
\* whole entry (value, age and the 3600 s lifetime) whose value is a rate the
\* provider returns for exactly the directional pair of its key; and every
\* request that got to the computation computes with a rate the provider
\* returns for its own pair, the persisted output amount being the request's
\* amount times that rate, to two places.
C21_EntriesBelongToTheirPair ==
    /\ \A k \in RateEntries :
          /\ DOMAIN cache[k] = {"value", "age", "timeout"}
          /\ cache[k].timeout = 3600
          /\ cache[k].value \in PairRates(k[2], k[3])
    /\ \A w \in Workers :
          /\ flight[w].pc = "compute" =>
                flight[w].rate \in PairRates(Upper(flight[w].req.input_currency),
                                             Upper(flight[w].req.output_currency))
          /\ (flight[w].pc = "done" /\ Created(flight[w])) =>
                /\ flight[w].rate \in PairRates(Upper(flight[w].req.input_currency),
                                                Upper(flight[w].req.output_currency))
                /\ NumEq(flight[w].resp.tx.output_amount,
                         ViewOutput(DecimalOf[flight[w].req.input_amount.text],
                                    flight[w].rate))

\* C21 witness: two requests for USD->EUR both missed and both called the
\* provider, which quoted them different rates; one has written its rate and
\* finished, the other is about to overwrite the entry with its own.
C21_Witness ==
    /\ flight["w1"].pc = "done" /\ Created(flight["w1"])
    /\ flight["w1"].calls = 1 /\ flight["w1"].rate = Rate05
    /\ flight["w2"].pc = "set" /\ flight["w2"].rate = Rate0125
    /\ flight["w1"].req.input_currency = "USD"
    /\ flight["w2"].req.input_currency = "USD"
    /\ cache[<<"exchange_rate", "USD", "EUR">>].value = Rate05

=============================================================================
